---------------------------- MODULE Spec2Model ----------------------------
(***************************************************************************)
(* Ticket dashboard (src/app.py): schema validation, normalization          *)
(* (prepare_dataframe), the query layer, and the run of main() on an        *)
(* uploaded CSV file, including the summary built by the nested             *)
(* generate_email_summary.                                                  *)
(*                                                                          *)
(* Text is a sequence of one-character strings, so that trimming,           *)
(* lower-casing and date parsing are computed character by character.       *)
(* A raw cell is NaN (pandas' missing value) or Text(s).  A calendar date   *)
(* is the integer yyyymmdd, which orders as dates do; NaT (absent) is 0.    *)
(* Series comparisons are element-wise, a missing value comparing False,    *)
(* as pandas compares object columns.                                       *)
(***************************************************************************)
EXTENDS Integers, Sequences, FiniteSets, TLC

(***************************************************************************)
(* Bounds of the model.                                                     *)
(***************************************************************************)
\* rows of a table handed to the engine operations
MaxRows == 2
\* rows of an uploaded file in a run of main()
MaxFileRows == 2
\* required columns an uploaded file may lack
MaxMissing == 2

---------------------------------------------------------------------------
(***************************************************************************)
(* Text                                                                     *)
(***************************************************************************)
Digits == <<"0", "1", "2", "3", "4", "5", "6", "7", "8", "9">>

UpperChars == <<"A", "B", "C", "D", "E", "F", "G", "H", "I", "J", "K", "L", "M",
                "N", "O", "P", "Q", "R", "S", "T", "U", "V", "W", "X", "Y", "Z">>

LowerChars == <<"a", "b", "c", "d", "e", "f", "g", "h", "i", "j", "k", "l", "m",
                "n", "o", "p", "q", "r", "s", "t", "u", "v", "w", "x", "y", "z">>

Whitespace == {" ", "\t"}

IndexOf(seq, c) ==
    IF \E i \in DOMAIN seq : seq[i] = c
    THEN CHOOSE i \in DOMAIN seq : seq[i] = c
    ELSE 0

\* str.lower() on one character
LowerChar(c) ==
    IF IndexOf(UpperChars, c) > 0 THEN LowerChars[IndexOf(UpperChars, c)] ELSE c

\* str.lower()
Lower(s) == [i \in DOMAIN s |-> LowerChar(s[i])]

\* str.strip(): leading and trailing whitespace removed, inner kept
Strip(s) ==
    LET keep == {i \in DOMAIN s : s[i] \notin Whitespace}
    IN  IF keep = {} THEN <<>>
        ELSE LET lo == CHOOSE i \in keep : \A j \in keep : i <= j
                 hi == CHOOSE i \in keep : \A j \in keep : j <= i
             IN  SubSeq(s, lo, hi)

\* text literals of the source
s_nan        == <<"n", "a", "n">>
s_Unassigned == <<"U", "n", "a", "s", "s", "i", "g", "n", "e", "d">>
s_closed     == <<"c", "l", "o", "s", "e", "d">>
s_resolved   == <<"r", "e", "s", "o", "l", "v", "e", "d">>

(***************************************************************************)
(* Cells                                                                    *)
(***************************************************************************)
NaN == [na |-> TRUE, s |-> <<>>]

Text(s) == [na |-> FALSE, s |-> s]

\* pd.isna / the complement of pd.notna on a raw cell
IsNa(cell) == cell.na

\* astype(str) on one cell: the missing value prints as 'nan'
AsStr(cell) == IF cell.na THEN s_nan ELSE cell.s

\* the absent date (pd.NaT)
NaT == 0

NotNa(d) == d # NaT

---------------------------------------------------------------------------
(***************************************************************************)
(* Configuration (src/app.py lines 6-28)                                    *)
(***************************************************************************)
REQUIRED_COLUMNS ==
    << "Request ID", "Subject", "Status.Name", "Group.Name",
       "Sub Category.Name", "IPC Feature List", "Technician.Name",
       "Requester.Name", "Created Date", "Completed Time",
       "Last Updated Time", "DevOpsRef", "Category.Name", "Priority.Name",
       "IPC Feature", "Responded Time" >>

CLOSED_STATUSES == {s_closed, s_resolved}

\* the columns prepare_dataframe adds
DerivedColumns ==
    {"Status Clean", "Created Date Parsed", "Completed Time Parsed",
     "Last Updated Time Parsed", "Is Closed", "ClosedDT"}

\* the columns prepare_dataframe passes to replace_blank_with_unassigned
BreakdownColumns ==
    << "Group.Name", "Sub Category.Name", "IPC Feature List",
       "Technician.Name", "Requester.Name", "DevOpsRef", "Priority.Name" >>

Range(seq) == {seq[i] : i \in DOMAIN seq}

(***************************************************************************)
(* validate_csv: the required columns absent from df.columns, in the order  *)
(* of REQUIRED_COLUMNS, and whether there is none.                          *)
(***************************************************************************)
\* the first missing column only
MissingColumns_FirstOnly(columns) ==
    LET missing == SelectSeq(REQUIRED_COLUMNS, LAMBDA col : col \notin columns)
    IN  IF missing = <<>> THEN <<>> ELSE <<missing[1]>>

MissingColumns(columns) ==
    SelectSeq(REQUIRED_COLUMNS, LAMBDA col : col \notin columns)

validate_csv(df) ==
    LET missing == MissingColumns(df.columns)
    IN  [is_valid |-> Len(missing) = 0, missing |-> missing]

(***************************************************************************)
(* parse_date_column: pd.to_datetime(errors='coerce', dayfirst=False) and   *)
(* .dt.date, on text of the form NN/NN/NNNN.  The first number is the month *)
(* unless it exceeds 12 (then dateutil reads the day first); anything else  *)
(* that is no calendar date is coerced to NaT.                              *)
(***************************************************************************)
IsDigit(c) == IndexOf(Digits, c) > 0

DigitVal(c) == IndexOf(Digits, c) - 1

IsLeap(y) == (y % 4 = 0 /\ y % 100 # 0) \/ y % 400 = 0

DaysInMonth(m, y) ==
    IF m = 2 THEN (IF IsLeap(y) THEN 29 ELSE 28)
    ELSE IF m \in {4, 6, 9, 11} THEN 30 ELSE 31

MakeDate(y, m, d) ==
    IF y >= 1 /\ m \in 1..12 /\ d >= 1 /\ d <= DaysInMonth(m, y)
    THEN y * 10000 + m * 100 + d
    ELSE NaT

\* the text read day/month/year, as dayfirst=True would
MonthFirst_DayFirst(a, b, y) ==
    IF b > 12 THEN MakeDate(y, a, b) ELSE MakeDate(y, b, a)

\* the text is month/day/year: dayfirst=False
MonthFirst(a, b, y) == IF a > 12 THEN MakeDate(y, b, a) ELSE MakeDate(y, a, b)

ParseDate(s) ==
    IF /\ Len(s) = 10
       /\ s[3] = "/" /\ s[6] = "/"
       /\ \A i \in {1, 2, 4, 5, 7, 8, 9, 10} : IsDigit(s[i])
    THEN MonthFirst(10 * DigitVal(s[1]) + DigitVal(s[2]),
                    10 * DigitVal(s[4]) + DigitVal(s[5]),
                    1000 * DigitVal(s[7]) + 100 * DigitVal(s[8])
                        + 10 * DigitVal(s[9]) + DigitVal(s[10]))
    ELSE NaT

parse_date_column(series) ==
    [i \in DOMAIN series |->
        IF IsNa(series[i]) THEN NaT ELSE ParseDate(series[i].s)]

(***************************************************************************)
(* replace_blank_with_unassigned, step by step on a series of cells.        *)
(***************************************************************************)
Fillna(series, value) ==
    [i \in DOMAIN series |-> IF IsNa(series[i]) THEN Text(value) ELSE series[i]]

Replace(series, old, new) ==
    [i \in DOMAIN series |->
        IF ~IsNa(series[i]) /\ series[i].s = old THEN Text(new) ELSE series[i]]

AstypeStr(series) == [i \in DOMAIN series |-> Text(AsStr(series[i]))]

\* only the missing values replaced, the blank texts kept
replace_blank_with_unassigned_FillnaOnly(series) ==
    AstypeStr(Fillna(series, s_Unassigned))

\* the text 'nan' blanked, to be replaced by a later pass
replace_blank_with_unassigned_NanBlanked(series) ==
    LET r1 == Fillna(series, s_Unassigned)
        r2 == Replace(r1, <<>>, s_Unassigned)
    IN  AstypeStr(Replace(r2, s_nan, <<>>))

replace_blank_with_unassigned(series) ==
    LET r1 == Fillna(series, s_Unassigned)
        r2 == Replace(r1, <<>>, s_Unassigned)
        r3 == Replace(r2, s_nan, s_Unassigned)
        r4 == AstypeStr(r3)
    IN  Replace(r4, s_nan, s_Unassigned)

(***************************************************************************)
(* prepare_dataframe.  A dataframe is [columns, index, rows]: rows is a     *)
(* sequence of functions from the column names to the cells, and index[k]   *)
(* is the label of rows[k] (0, 1, ... as read from the file; a filtered     *)
(* view keeps the labels of the rows it keeps).                             *)
(***************************************************************************)
Column(df, c) == [i \in DOMAIN df.rows |-> df.rows[i][c]]

\* select_dtypes(include=['object']): a column read from CSV holds objects
\* when it holds some text; a column with no value at all is float64.  The
\* derived columns, present when the table was prepared before, are left to
\* lines 93-110, which assign each of them anew whatever line 90 made of it.
ObjectColumns(df) ==
    {c \in df.columns \ DerivedColumns :
        \E i \in DOMAIN df.rows : ~IsNa(df.rows[i][c])}

\* lines 88-90: df[col].astype(str).str.strip() on every object column
StripObjectColumns(df) ==
    LET obj == ObjectColumns(df)
    IN  [df EXCEPT !.rows =
            [i \in DOMAIN df.rows |->
                [c \in df.columns |->
                    IF c \in obj THEN Text(Strip(AsStr(df.rows[i][c])))
                    ELSE df.rows[i][c]]]]

\* the status trimmed and not lower-cased
StatusClean_NoLower(cell) == Strip(AsStr(cell))

\* line 93
StatusClean(cell) == Lower(Strip(AsStr(cell)))

\* line 101
IsClosedStatus(status_clean) == status_clean \in CLOSED_STATUSES

\* the completed date only, with no fallback to the last update
ClosedDT_NoFallback(completed, last_updated, is_closed) ==
    IF is_closed THEN completed ELSE NaT

\* lines 106-110: A if notna(A) else (B if closed else NaT)
ClosedDT(completed, last_updated, is_closed) ==
    IF NotNa(completed) THEN completed
    ELSE IF is_closed THEN last_updated ELSE NaT

prepare_dataframe(df0) ==
    LET df        == StripObjectColumns(df0)
        created   == parse_date_column(Column(df, "Created Date"))
        completed == parse_date_column(Column(df, "Completed Time"))
        updated   == parse_date_column(Column(df, "Last Updated Time"))
        breakdown == [c \in Range(BreakdownColumns) |->
                         replace_blank_with_unassigned(Column(df, c))]
        clean(i)  == StatusClean(df.rows[i]["Status.Name"])
    IN  [columns |-> df.columns \cup DerivedColumns,
         index |-> df.index,
         rows |->
            [i \in DOMAIN df.rows |->
                [c \in df.columns \cup DerivedColumns |->
                    CASE c = "Status Clean" -> clean(i)
                      [] c = "Created Date Parsed" -> created[i]
                      [] c = "Completed Time Parsed" -> completed[i]
                      [] c = "Last Updated Time Parsed" -> updated[i]
                      [] c = "Is Closed" -> IsClosedStatus(clean(i))
                      [] c = "ClosedDT" ->
                            ClosedDT(completed[i], updated[i],
                                     IsClosedStatus(clean(i)))
                      [] c \in Range(BreakdownColumns) -> breakdown[c][i]
                      [] OTHER -> df.rows[i][c]]]]

---------------------------------------------------------------------------
(***************************************************************************)
(* Query layer (lines 124-194).  df[mask].copy() is a new dataframe with    *)
(* the rows the mask selects, in order, under their labels.                 *)
(***************************************************************************)
Positions(df) == [k \in 1..Len(df.rows) |-> k]

\* df[mask]: mask[k] tells whether rows[k] is kept
Filter(df, mask) ==
    LET keep == SelectSeq(Positions(df), LAMBDA k : mask[k])
    IN  [columns |-> df.columns,
         index |-> [k \in 1..Len(keep) |-> df.index[keep[k]]],
         rows |-> [k \in 1..Len(keep) |-> df.rows[keep[k]]]]

\* element-wise comparisons of a date column with a date: NaT compares False
DateEq(x, d) == NotNa(x) /\ x = d

DateGe(x, d) == NotNa(x) /\ x >= d

\* the upper bound taken as exclusive
DateLe_Exclusive(x, d) == NotNa(x) /\ x < d

DateLe(x, d) == NotNa(x) /\ x <= d

\* df[c] of the row at position k
At(df, k, c) == df.rows[k][c]

\* lines 106-110: df.apply gives ClosedDT the dtype datetime64 when every
\* value of it is NaT, and a column of dates and NaT otherwise
ClosedDTIsDatetime64(d) ==
    Len(d.rows) > 0 /\ \A k \in DOMAIN d.rows : At(d, k, "ClosedDT") = NaT

\* lines 159, 189-190 and 783-787: whether df['ClosedDT'] >= date raises.
\* Ordering a datetime64 column against a datetime.date is a TypeError
\* ('Invalid comparison between dtype=datetime64[ns] and date') or is carried
\* out, depending on the pandas at hand; a column of dates and NaT compares
\* element by element.
ComparisonRaises(d) == IF ClosedDTIsDatetime64(d) THEN BOOLEAN ELSE {FALSE}

get_open_tickets(df) ==
    Filter(df, [k \in DOMAIN df.rows |-> ~At(df, k, "Is Closed")])

get_tickets_opened_on_date(df, target_date) ==
    Filter(df, [k \in DOMAIN df.rows |->
        DateEq(At(df, k, "Created Date Parsed"), target_date)])

get_tickets_closed_on_date(df, target_date) ==
    Filter(df, [k \in DOMAIN df.rows |->
        At(df, k, "Is Closed") /\ DateEq(At(df, k, "ClosedDT"), target_date)])

\* a datetime is [date, hour]; cutoff_datetime.date() is its date
get_tickets_opened_since(df, cutoff_datetime) ==
    Filter(df, [k \in DOMAIN df.rows |->
        DateGe(At(df, k, "Created Date Parsed"), cutoff_datetime.date)])

\* the status of the ticket left out of the mask
get_tickets_closed_since_AnyStatus(df, cutoff_datetime) ==
    Filter(df, [k \in DOMAIN df.rows |->
        DateGe(At(df, k, "ClosedDT"), cutoff_datetime.date)])

get_tickets_closed_since(df, cutoff_datetime) ==
    Filter(df, [k \in DOMAIN df.rows |->
        At(df, k, "Is Closed") /\ DateGe(At(df, k, "ClosedDT"), cutoff_datetime.date)])

\* an unknown scope answered with no ticket at all
get_tickets_in_period_UnknownEmpty(df, a, b, scope_type) ==
    IF scope_type = "open" THEN get_open_tickets(df)
    ELSE IF scope_type = "all" THEN df
    ELSE IF scope_type = "created_in_period" THEN
        Filter(df, [k \in DOMAIN df.rows |->
            /\ DateGe(At(df, k, "Created Date Parsed"), a)
            /\ DateLe(At(df, k, "Created Date Parsed"), b)])
    ELSE IF scope_type = "closed_in_period" THEN
        Filter(df, [k \in DOMAIN df.rows |->
            /\ At(df, k, "Is Closed")
            /\ DateGe(At(df, k, "ClosedDT"), a)
            /\ DateLe(At(df, k, "ClosedDT"), b)])
    ELSE Filter(df, [k \in DOMAIN df.rows |-> FALSE])

get_tickets_in_period(df, a, b, scope_type) ==
    IF scope_type = "open" THEN get_open_tickets(df)
    ELSE IF scope_type = "all" THEN df
    ELSE IF scope_type = "created_in_period" THEN
        Filter(df, [k \in DOMAIN df.rows |->
            /\ DateGe(At(df, k, "Created Date Parsed"), a)
            /\ DateLe(At(df, k, "Created Date Parsed"), b)])
    ELSE IF scope_type = "closed_in_period" THEN
        Filter(df, [k \in DOMAIN df.rows |->
            /\ At(df, k, "Is Closed")
            /\ DateGe(At(df, k, "ClosedDT"), a)
            /\ DateLe(At(df, k, "ClosedDT"), b)])
    ELSE df

(***************************************************************************)
(* count_by_column (lines 197-209).  value_counts() leaves the missing      *)
(* values out and counts each other value once; it and sort_values order    *)
(* the groups by count with pandas' default sort, 'quicksort', which is not *)
(* stable: the order of groups of equal count is whatever the sort makes    *)
(* it.  The operator gives every table the call can return, as the sequence *)
(* of its rows (the labels of the counts table are read by nothing).        *)
(***************************************************************************)
\* the values value_counts() groups by: dropna=True
GroupValues(df, column_name) ==
    {At(df, k, column_name) : k \in DOMAIN df.rows} \ {NaN}

GroupCount(df, column_name, v) ==
    Cardinality({k \in DOMAIN df.rows : At(df, k, column_name) = v})

\* one row of the counts table
CountRow(df, column_name, v) ==
    (column_name :> v) @@ ("Count" :> GroupCount(df, column_name, v))

\* sorted by 'Count', descending
IsCountDescending(rows) ==
    \A k \in DOMAIN rows : \A l \in DOMAIN rows :
        k < l => rows[k]["Count"] >= rows[l]["Count"]

count_by_column(df, column_name) ==
    IF Len(df.rows) = 0 THEN {<<>>}
    ELSE LET G == GroupValues(df, column_name)
             orders == {o \in [1..Cardinality(G) -> G] :
                           \A k \in DOMAIN o : \A l \in DOMAIN o : k # l => o[k] # o[l]}
         IN  {t \in {[k \in DOMAIN o |-> CountRow(df, column_name, o[k])] : o \in orders} :
                 IsCountDescending(t)}

---------------------------------------------------------------------------
(***************************************************************************)
(* Status buckets (line 28 and the literals of lines 697-698)               *)
(***************************************************************************)
s_DeferedEnhancement ==
    <<"D", "e", "f", "e", "r", "e", "d", " ", "E", "n", "h", "a", "n", "c", "e", "m", "e", "n", "t">>

s_InProgress ==
    <<"I", "n", " ", "P", "r", "o", "g", "r", "e", "s", "s">>

s_TllBAUTicket ==
    <<"T", "l", "l", " ", "B", "A", "U", " ", "T", "i", "c", "k", "e", "t">>

s_BATriageRequired ==
    <<"B", "A", " ", "T", "r", "i", "a", "g", "e", " ", "R", "e", "q", "u", "i", "r", "e", "d">>

s_DevopsAssigned ==
    <<"D", "e", "v", "o", "p", "s", " ", "A", "s", "s", "i", "g", "n", "e", "d">>

s_BAUConfigChange ==
    <<"B", "A", "U", " ", "C", "o", "n", "f", "i", "g", " ", "C", "h", "a", "n", "g", "e">>

s_OnHold ==
    <<"O", "n", " ", "H", "o", "l", "d">>

s_PendingUserUpdate ==
    <<"P", "e", "n", "d", "i", "n", "g", " ", "U", "s", "e", "r", " ", "U", "p", "d", "a", "t", "e">>

ON_HOLD_STATUSES ==
    {s_DeferedEnhancement, s_InProgress, s_TllBAUTicket, s_BATriageRequired,
     s_DevopsAssigned, s_BAUConfigChange, s_OnHold}

\* len(df)
Count(df) == Len(df.rows)

\* df["Status.Name"].astype(str).str.strip(), as a mask of the statuses in S
StatusIn(df, S) ==
    [k \in DOMAIN df.rows |-> Strip(AsStr(At(df, k, "Status.Name"))) \in S]

(***************************************************************************)
(* Dates of the run: today, and what main() derives from it.                *)
(***************************************************************************)
YearOf(d) == d \div 10000

\* today.replace(day=1)
MonthStart(d) == (d \div 100) * 100 + 1

PrevDay(d) ==
    LET y  == d \div 10000
        m  == (d \div 100) % 100
        dd == d % 100
    IN  IF dd > 1 THEN d - 1
        ELSE IF m > 1 THEN y * 10000 + (m - 1) * 100 + DaysInMonth(m - 1, y)
        ELSE (y - 1) * 10000 + 1231

RECURSIVE MinusDays(_, _)
\* date - timedelta(days=n)
MinusDays(d, n) == IF n = 0 THEN d ELSE MinusDays(PrevDay(d), n - 1)

\* now - timedelta(days=n), and hours=24 is one day
NowMinusDays(now, n) == [date |-> MinusDays(now.date, n), hour |-> now.hour]

NextDay(d) ==
    LET y  == d \div 10000
        m  == (d \div 100) % 100
        dd == d % 100
    IN  IF dd < DaysInMonth(m, y) THEN d + 1
        ELSE IF m < 12 THEN y * 10000 + (m + 1) * 100 + 1
        ELSE (y + 1) * 10000 + 101

RECURSIVE DateRange(_, _)
\* pd.date_range(start, end, freq='D'): every day from start to end
DateRange(start, end) ==
    IF start > end THEN <<>> ELSE <<start>> \o DateRange(NextDay(start), end)

(***************************************************************************)
(* get_daily_trend_data (lines 243-270)                                     *)
(***************************************************************************)
\* the window started a whole 'days' before today
get_daily_trend_data_FromDaysBack(df, days, now_date) ==
    LET date_range == DateRange(MinusDays(now_date, days), now_date)
    IN  [k \in DOMAIN date_range |->
            [Date |-> date_range[k],
             Opened |-> Len(SelectSeq(df.rows,
                            LAMBDA r : DateEq(r["Created Date Parsed"], date_range[k]))),
             Closed |-> Len(SelectSeq(df.rows,
                            LAMBDA r : r["Is Closed"] /\ DateEq(r["ClosedDT"], date_range[k])))]]

get_daily_trend_data(df, days, now_date) ==
    LET end_date   == now_date
        start_date == MinusDays(end_date, days - 1)
        date_range == DateRange(start_date, end_date)
    IN  [k \in DOMAIN date_range |->
            [Date |-> date_range[k],
             Opened |-> Len(SelectSeq(df.rows,
                            LAMBDA r : DateEq(r["Created Date Parsed"], date_range[k]))),
             Closed |-> Len(SelectSeq(df.rows,
                            LAMBDA r : r["Is Closed"] /\ DateEq(r["ClosedDT"], date_range[k])))]]

(***************************************************************************)
(* display_abandoned_tickets (lines 523-592): the days since the last       *)
(* update, and the three buckets.                                           *)
(***************************************************************************)
RECURSIVE DaysBeforeMonth(_, _)
\* the days of year y that precede month m
DaysBeforeMonth(m, y) ==
    IF m = 1 THEN 0 ELSE DaysBeforeMonth(m - 1, y) + DaysInMonth(m - 1, y)

\* date.toordinal(): the days from 0001-01-01, which is day 1
ToOrdinal(d) ==
    LET y  == d \div 10000
        m  == (d \div 100) % 100
        dd == d % 100
        py == y - 1
    IN  py * 365 + py \div 4 - py \div 100 + py \div 400 + DaysBeforeMonth(m, y) + dd

\* lines 533-535: (now - x).days, None (the empty sequence) without a date
DaysSinceUpdate(now, x) ==
    IF NotNa(x) THEN <<ToOrdinal(now) - ToOrdinal(x)>> ELSE <<>>

\* line 533: the column 'Days Since Update' assigned to a dataframe
WithDaysSinceUpdate(d, now) ==
    [columns |-> d.columns \cup {"Days Since Update"},
     index |-> d.index,
     rows |-> [k \in DOMAIN d.rows |->
                 [c \in d.columns \cup {"Days Since Update"} |->
                     IF c = "Days Since Update"
                     THEN DaysSinceUpdate(now, At(d, k, "Last Updated Time Parsed"))
                     ELSE At(d, k, c)]]]

\* the tickets of one band only: more than n and at most 2n + 1 days
MoreThan_Banded(abandoned_data, n) ==
    Filter(abandoned_data, [k \in DOMAIN abandoned_data.rows |->
        /\ At(abandoned_data, k, "Days Since Update")[1] > n
        /\ At(abandoned_data, k, "Days Since Update")[1] <= 2 * n + 1])

\* abandoned_data bound to the caller's dataframe itself
abandoned_data_is_argument_NoCopy == TRUE

\* line 532: abandoned_data = tickets_df.copy() is a new dataframe
abandoned_data_is_argument == FALSE

\* lines 541-543: abandoned_data[abandoned_data['Days Since Update'] > n]
MoreThan(abandoned_data, n) ==
    Filter(abandoned_data, [k \in DOMAIN abandoned_data.rows |->
        At(abandoned_data, k, "Days Since Update")[1] > n])

\* tickets_df is the caller's dataframe as the call leaves it
display_abandoned_tickets(tickets_df, now) ==
    LET with_days == WithDaysSinceUpdate(tickets_df, now)
        abandoned_data ==
            Filter(with_days, [k \in DOMAIN with_days.rows |->
                At(with_days, k, "Days Since Update") # <<>>])
    IN  [tickets_df |-> IF abandoned_data_is_argument THEN with_days ELSE tickets_df,
         more_than_7 |-> MoreThan(abandoned_data, 7),
         more_than_15 |-> MoreThan(abandoned_data, 15),
         more_than_30 |-> MoreThan(abandoned_data, 30)]

(***************************************************************************)
(* Key metrics of main() (lines 693-712) and the current-year rollup        *)
(* (lines 212-240).                                                         *)
(***************************************************************************)
\* the closed tickets that carry a closed date only
closed_tickets_Dated(df) ==
    Filter(df, [k \in DOMAIN df.rows |->
        At(df, k, "Is Closed") /\ NotNa(At(df, k, "ClosedDT"))])

\* line 694: df[df['Is Closed']]
closed_tickets(df) ==
    Filter(df, [k \in DOMAIN df.rows |-> At(df, k, "Is Closed")])

KeyMetrics(df) ==
    [open |-> Count(get_open_tickets(df)),
     on_hold |-> Count(Filter(df, StatusIn(df, ON_HOLD_STATUSES))),
     in_progress |-> Count(Filter(df, StatusIn(df, {s_InProgress}))),
     pending_user_update |-> Count(Filter(df, StatusIn(df, {s_PendingUserUpdate}))),
     closed |-> Count(closed_tickets(df))]

InYear(x, year) == NotNa(x) /\ YearOf(x) = year

get_current_year_metrics(df, now_date) ==
    LET current_year == YearOf(now_date)
        created_this_year ==
            Filter(df, [k \in DOMAIN df.rows |->
                InYear(At(df, k, "Created Date Parsed"), current_year)])
        closed_this_year ==
            Filter(df, [k \in DOMAIN df.rows |->
                At(df, k, "Is Closed") /\ InYear(At(df, k, "ClosedDT"), current_year)])
    IN  [year |-> current_year,
         created_total |-> Count(created_this_year),
         created_open |-> Count(get_open_tickets(created_this_year)),
         created_closed |-> Count(closed_tickets(created_this_year)),
         closed_total |-> Count(closed_this_year)]

(***************************************************************************)
(* The summary of main() (nested generate_email_summary, lines 946-1055).   *)
(* An optional argument is a sequence of no or one value.                   *)
(***************************************************************************)
\* lines 965-968
ClosedCount(scope_df, closed_scope_df) ==
    IF closed_scope_df = <<>> THEN Count(closed_tickets(scope_df))
    ELSE Count(closed_scope_df[1])

make_metrics_df(scope_df, closed_scope_df) ==
    [created |-> Count(scope_df),
     on_hold |-> Count(Filter(scope_df, StatusIn(scope_df, ON_HOLD_STATUSES))),
     pending_action |-> Count(Filter(scope_df, StatusIn(scope_df, ON_HOLD_STATUSES))),
     pending_user_update |->
        Count(Filter(scope_df, StatusIn(scope_df, {s_PendingUserUpdate}))),
     closed |-> ClosedCount(scope_df, closed_scope_df)]

\* df[(created >= a) & (created <= b)]
CreatedBetween(df, a, b) ==
    Filter(df, [k \in DOMAIN df.rows |->
        /\ DateGe(At(df, k, "Created Date Parsed"), a)
        /\ DateLe(At(df, k, "Created Date Parsed"), b)])

\* df[(Is Closed) & (ClosedDT >= a) & (ClosedDT <= b)]
ClosedBetween(df, a, b) ==
    Filter(df, [k \in DOMAIN df.rows |->
        /\ At(df, k, "Is Closed")
        /\ DateGe(At(df, k, "ClosedDT"), a)
        /\ DateLe(At(df, k, "ClosedDT"), b)])

\* the largest date of a set, NaT when there is none
MaxDate(S) == IF S = {} THEN NaT ELSE CHOOSE d \in S : \A e \in S : e <= d

MinDate(S) == IF S = {} THEN NaT ELSE CHOOSE d \in S : \A e \in S : d <= e

DatesOf(df, c) == {df.rows[k][c] : k \in 1..Len(df.rows)} \ {NaT}

\* line 978
OverviewMetrics(df) == make_metrics_df(df, <<>>)

\* the closed count taken from the tickets created in the period
PeriodMetrics_CreatedScope(df, a, b) ==
    make_metrics_df(CreatedBetween(df, a, b), <<>>)

\* lines 980-991
PeriodMetrics(df, a, b) ==
    make_metrics_df(CreatedBetween(df, a, b), <<ClosedBetween(df, a, b)>>)

\* lines 993-1004: month_closed_scope is computed and not passed on
MonthMetrics(df, month_start, now_date) ==
    make_metrics_df(CreatedBetween(df, month_start, now_date), <<>>)

generate_email_summary(df, a, b, now_date) ==
    [snapshot_date |-> MaxDate(DatesOf(df, "Last Updated Time Parsed")),
     overview_df |-> OverviewMetrics(df),
     period_df |-> PeriodMetrics(df, a, b),
     month_df |-> MonthMetrics(df, MonthStart(now_date), now_date),
     month_start |-> MonthStart(now_date),
     today |-> now_date]

---------------------------------------------------------------------------
(***************************************************************************)
(* Inputs: the raw cells, rows and tables the operations are applied to.    *)
(***************************************************************************)
s_Resolved  == <<"R", "e", "s", "o", "l", "v", "e", "d">>

s_CLOSED_sp == <<" ", "C", "L", "O", "S", "E", "D", " ">>

s_Open      == <<"O", "p", "e", "n">>

s_ClosedOut == <<"C", "l", "o", "s", "e", "d", " ", "o", "u", "t">>

s_Jan3      == <<"0", "1", "/", "0", "3", "/", "2", "0", "2", "4">>

s_Feb10     == <<"0", "2", "/", "1", "0", "/", "2", "0", "2", "4">>

s_May3      == <<"0", "5", "/", "0", "3", "/", "2", "0", "2", "4">>

s_tbc       == <<"t", "b", "c">>

s_Support   == <<"S", "u", "p", "p", "o", "r", "t">>

\* raw values of a breakdown column: missing, empty, blank, 'nan' with and
\* without surrounding blanks, and ordinary text with and without them
BreakdownRaw ==
    << NaN, Text(<<>>), Text(<<" ", " ">>), Text(<<" ", "n", "a", "n">>),
       Text(s_nan), Text(<<" ", "N", "e", "t", " ">>), Text(s_Support) >>

\* raw values of Subject
SubjectRaw ==
    << Text(<<"P", "r", "i", "n", "t", "e", "r">>), NaN, Text(<<" ", " ">>), Text(<<" ", "V", "P", "N", " ">>) >>

\* A raw row.  Pattern k rotates the raw breakdown values over the seven
\* breakdown columns, so that over the patterns every column meets every value.
MkRow(status, created, completed, updated, k) ==
    [c \in Range(REQUIRED_COLUMNS) |->
        CASE c = "Status.Name" -> status
          [] c = "Created Date" -> created
          [] c = "Completed Time" -> completed
          [] c = "Last Updated Time" -> updated
          [] c = "Subject" -> SubjectRaw[(k % Len(SubjectRaw)) + 1]
          [] c = "Request ID" -> Text(<<"R", Digits[(k % 10) + 1]>>)
          [] c = "Category.Name" -> Text(<<"I", "T">>)
          [] c \in Range(BreakdownColumns) ->
                BreakdownRaw[((k + IndexOf(BreakdownColumns, c)) % Len(BreakdownRaw)) + 1]
          [] OTHER -> NaN]

\* rows of the tables the engine operations are applied to:
\* <<Status.Name, Created Date, Completed Time, Last Updated Time>>
RowSpecs ==
    << <<Text(s_Resolved), Text(s_Jan3), NaN, Text(s_May3)>>,
       <<Text(s_Resolved), Text(s_Jan3), Text(<<>>), Text(s_May3)>>,
       <<Text(s_Resolved), Text(s_Jan3), Text(s_Feb10), Text(s_May3)>>,
       <<Text(s_Resolved), Text(s_Jan3), Text(s_Feb10), NaN>>,
       <<Text(s_Resolved), Text(s_Jan3), NaN, NaN>>,
       <<Text(s_Open), Text(s_Jan3), NaN, Text(s_May3)>>,
       <<Text(s_Open), Text(s_Jan3), Text(s_Feb10), Text(s_May3)>>,
       <<Text(s_Open), Text(s_May3), Text(s_May3), NaN>>,
       <<Text(s_Open), Text(s_Jan3), NaN, NaN>>,
       <<Text(s_CLOSED_sp), Text(s_May3), Text(s_tbc), Text(s_May3)>>,
       <<Text(s_CLOSED_sp), NaN, Text(s_tbc), NaN>>,
       <<NaN, Text(s_May3), Text(s_tbc), Text(s_May3)>>,
       <<NaN, NaN, NaN, NaN>>,
       <<Text(s_ClosedOut), Text(s_May3), Text(s_Feb10), Text(s_May3)>>,
       <<Text(s_ClosedOut), NaN, Text(s_tbc), NaN>> >>

RawRows ==
    {MkRow(RowSpecs[k][1], RowSpecs[k][2], RowSpecs[k][3], RowSpecs[k][4], k) :
        k \in DOMAIN RowSpecs}

\* pd.read_csv numbers the rows 0, 1, ...
RangeIndex(n) == [k \in 1..n |-> k - 1]

MkDf(columns, rows) ==
    [columns |-> columns, index |-> RangeIndex(Len(rows)), rows |-> rows]

SeqsUpTo(S, n) == UNION {[1..m -> S] : m \in 1..n}

EngineTables ==
    {MkDf(Range(REQUIRED_COLUMNS), rows) : rows \in SeqsUpTo(RawRows, MaxRows)}

\* the dates and scopes the queries are called with
QueryDates == {20240103, 20240305, 20240503}

Scopes == {"open", "all", "created_in_period", "closed_in_period"}

QueryScopes == Scopes \cup {"closed"}

\* the values datetime.now().date() takes
Todays == {20240510}

\* the trend window main() asks for (line 884)
TrendDays == 30

\* rows of the uploaded files
FileRowSpecs ==
    << <<Text(s_Resolved), Text(s_Jan3), NaN, Text(s_May3)>>,
       <<Text(s_Open), Text(s_May3), NaN, Text(s_May3)>>,
       <<Text(s_Resolved), Text(s_May3), Text(s_May3), Text(s_May3)>>,
       <<Text(s_Resolved), Text(s_Feb10), NaN, NaN>>,
       <<Text(s_OnHold), Text(s_Jan3), NaN, Text(s_Feb10)>>,
       <<Text(s_Open), Text(s_Jan3), Text(s_Feb10), Text(s_May3)>>,
       <<Text(s_Open), NaN, NaN, NaN>> >>

FileRows ==
    {MkRow(FileRowSpecs[k][1], FileRowSpecs[k][2], FileRowSpecs[k][3],
           FileRowSpecs[k][4], k) : k \in DOMAIN FileRowSpecs}

\* a row cut down, or widened by the column 'Site', to the columns of a file
RowOver(columns, r) ==
    [c \in columns |-> IF c \in DOMAIN r THEN r[c] ELSE Text(<<"H", "Q">>)]

\* the column sets of the files: up to MaxMissing required columns are
\* absent, and the extra column 'Site' may be present
FileColumnSets ==
    {(Range(REQUIRED_COLUMNS) \ M) \cup X :
        M \in {S \in SUBSET Range(REQUIRED_COLUMNS) : Cardinality(S) <= MaxMissing},
        X \in {{}, {"Site"}}}

\* An uploaded file: malformed (pd.read_csv raises), or a header and rows.
Files ==
    {[malformed |-> FALSE, columns |-> Range(REQUIRED_COLUMNS), rows |-> rows] :
        rows \in SeqsUpTo(FileRows, MaxFileRows)}
    \cup
    {[malformed |-> FALSE, columns |-> cols, rows |-> <<RowOver(cols, r)>>] :
        cols \in FileColumnSets,
        r \in {MkRow(FileRowSpecs[1][1], FileRowSpecs[1][2], FileRowSpecs[1][3],
                     FileRowSpecs[1][4], 1)}}
    \cup
    {[malformed |-> TRUE, columns |-> {}, rows |-> <<>>]}

EmptyDf == [columns |-> {}, index |-> <<>>, rows |-> <<>>]

NoCall == [op |-> "", a |-> NaT, b |-> NaT, scope |-> ""]

---------------------------------------------------------------------------
VARIABLES
    pc,             \* where the run of main(), or the engine session, stands
    uploaded_file,  \* <<>> (None) or <<file>>: the file_uploader's value
    show_charts,    \* the "Show charts" checkbox
    today,          \* datetime.now().date()
    raw,            \* the dataframe as read, kept to state the properties
    df,             \* the dataframe: as read, then as normalized
    date_a,         \* the "Date A" input
    date_b,         \* the "Date B" input
    scope_type,     \* the breakdown scope selected
    ran,            \* the components executed in this run
    screen,         \* what the run has displayed
    validation,     \* <<>> or <<[is_valid, missing]>>: what validate_csv returned
    call,           \* engine session: the last query called
    result          \* engine session: what it returned

vars ==
    <<pc, uploaded_file, show_charts, today, raw, df, date_a, date_b, scope_type,
      ran, screen, validation, call, result>>

BlankScreen ==
    [error_missing |-> <<>>, success |-> <<>>, warning_no_dates |-> FALSE,
     key_metrics |-> <<>>, year_metrics |-> <<>>, period |-> <<>>,
     rolling |-> <<>>, trend |-> <<>>, breakdown_total |-> <<>>,
     breakdown_groups |-> <<>>, abandoned |-> <<>>, summary |-> <<>>,
     exception |-> FALSE, prompt |-> FALSE, expander |-> FALSE]

(***************************************************************************)
(* Engine session: a table is normalized once, then queried; each query's   *)
(* result is a new dataframe, held until the caller drops it.               *)
(***************************************************************************)
InitEngine ==
    /\ pc = "raw"
    /\ raw \in EngineTables
    /\ df = raw
    /\ today \in Todays
    /\ uploaded_file = <<>>
    /\ show_charts = TRUE
    /\ date_a = NaT
    /\ date_b = NaT
    /\ scope_type = "open"
    /\ ran = {}
    /\ screen = BlankScreen
    /\ validation = <<>>
    /\ call = NoCall
    /\ result = EmptyDf

unchangedUI ==
    UNCHANGED <<uploaded_file, show_charts, today, date_a, date_b, scope_type,
                ran, screen, validation>>

Normalize ==
    /\ pc = "raw"
    /\ df' = prepare_dataframe(df)
    /\ pc' = "normalized"
    /\ UNCHANGED <<raw, call, result>>
    /\ unchangedUI

Query(op, a, b, scope, res) ==
    /\ pc = "normalized"
    /\ call' = [op |-> op, a |-> a, b |-> b, scope |-> scope]
    /\ result' = res
    /\ pc' = "queried"
    /\ UNCHANGED <<raw, df>>
    /\ unchangedUI

\* the query raises: the caller gets no result
Raise(op, a, b, scope) ==
    /\ pc = "normalized"
    /\ call' = [op |-> op, a |-> a, b |-> b, scope |-> scope]
    /\ result' = EmptyDf
    /\ pc' = "raised"
    /\ UNCHANGED <<raw, df>>
    /\ unchangedUI

\* the caller is done with the result, or with the exception
Release ==
    /\ pc \in {"queried", "raised"}
    /\ pc' = "normalized"
    /\ call' = NoCall
    /\ result' = EmptyDf
    /\ UNCHANGED <<raw, df>>
    /\ unchangedUI

OpenTickets == Query("get_open_tickets", NaT, NaT, "", get_open_tickets(df))

ClosedTickets == Query("closed_tickets", NaT, NaT, "", closed_tickets(df))

OpenedOnDate ==
    \E d \in QueryDates :
        Query("get_tickets_opened_on_date", d, NaT, "",
              get_tickets_opened_on_date(df, d))

ClosedOnDate ==
    \E d \in QueryDates :
        Query("get_tickets_closed_on_date", d, NaT, "",
              get_tickets_closed_on_date(df, d))

OpenedSince ==
    \E d \in QueryDates :
        Query("get_tickets_opened_since", d, NaT, "",
              get_tickets_opened_since(df, [date |-> d, hour |-> 9]))

ClosedSince ==
    /\ pc = "normalized"
    /\ \E d \in QueryDates : \E raises \in ComparisonRaises(df) :
        IF raises
        THEN Raise("get_tickets_closed_since", d, NaT, "")
        ELSE Query("get_tickets_closed_since", d, NaT, "",
                   get_tickets_closed_since(df, [date |-> d, hour |-> 9]))

\* only the scope 'closed_in_period' orders ClosedDT against the dates
TicketsInPeriod ==
    /\ pc = "normalized"
    /\ \E a \in QueryDates, b \in QueryDates, scope \in QueryScopes :
        \E raises \in (IF scope = "closed_in_period" THEN ComparisonRaises(df)
                                                     ELSE {FALSE}) :
            IF raises
            THEN Raise("get_tickets_in_period", a, b, scope)
            ELSE Query("get_tickets_in_period", a, b, scope,
                       get_tickets_in_period(df, a, b, scope))

\* prepare_dataframe called on the table it returned
PrepareAgain == Query("prepare_dataframe", NaT, NaT, "", prepare_dataframe(df))

NextEngine ==
    \/ Normalize
    \/ PrepareAgain
    \/ OpenTickets
    \/ ClosedTickets
    \/ OpenedOnDate
    \/ ClosedOnDate
    \/ OpenedSince
    \/ ClosedSince
    \/ TicketsInPeriod
    \/ Release

SpecEngine == InitEngine /\ [][NextEngine]_vars

---------------------------------------------------------------------------
(***************************************************************************)
(* Aggregation session: the engine session, with the aggregations and the   *)
(* displays called on the normalized table as well.                         *)
(***************************************************************************)
\* rows of the tables of the aggregation session; rows 1 and 8 carry the
\* same breakdown values
AggRowSpecs ==
    << <<Text(s_Resolved), Text(s_Jan3), NaN, Text(s_May3)>>,
       <<Text(s_Open), Text(s_Jan3), NaN, Text(s_May3)>>,
       <<Text(s_Open), Text(s_May3), NaN, Text(s_Feb10)>>,
       <<Text(s_OnHold), Text(s_Jan3), NaN, Text(s_Jan3)>>,
       <<NaN, Text(s_May3), Text(s_tbc), Text(s_May3)>>,
       <<NaN, NaN, NaN, NaN>>,
       <<Text(s_Open), Text(s_Jan3), Text(s_Feb10), NaN>>,
       <<Text(s_Resolved), Text(s_Jan3), Text(s_Feb10), Text(s_May3)>> >>

AggRows ==
    {MkRow(AggRowSpecs[k][1], AggRowSpecs[k][2], AggRowSpecs[k][3],
           AggRowSpecs[k][4], k) : k \in DOMAIN AggRowSpecs}

AggregateTables ==
    {MkDf(Range(REQUIRED_COLUMNS), rows) : rows \in SeqsUpTo(AggRows, MaxRows)}

\* the values datetime.now().date() takes in the aggregation session
AggTodays == {20240510, 20240520}

\* the windows get_daily_trend_data is asked for
TrendWindows == {1, 7, 30}

\* the columns main() has counted: lines 915-933 and line 478
CountColumns == Range(BreakdownColumns) \cup {"Status.Name"}

\* the scopes whose tickets are counted
CountScopes == {"all", "open"}

InitAggregate ==
    /\ pc = "raw"
    /\ raw \in AggregateTables
    /\ df = raw
    /\ today \in AggTodays
    /\ uploaded_file = <<>>
    /\ show_charts = TRUE
    /\ date_a = NaT
    /\ date_b = NaT
    /\ scope_type = "open"
    /\ ran = {}
    /\ screen = BlankScreen
    /\ validation = <<>>
    /\ call = NoCall
    /\ result = EmptyDf

\* count_by_column on the tickets of a scope; the sort settles the order of
\* the groups of equal count
CountByColumn ==
    /\ pc = "normalized"
    /\ \E scope \in CountScopes, c \in CountColumns :
        \E counts \in count_by_column(get_tickets_in_period(df, NaT, NaT, scope), c) :
            /\ call' = [op |-> "count_by_column", a |-> NaT, b |-> NaT,
                        scope |-> scope, column |-> c]
            /\ result' = [columns |-> {c, "Count"}, rows |-> counts]
    /\ pc' = "queried"
    /\ UNCHANGED <<raw, df>>
    /\ unchangedUI

CurrentYearMetrics ==
    Query("get_current_year_metrics", NaT, NaT, "",
          get_current_year_metrics(df, today))

DailyTrend ==
    \E days \in TrendWindows :
        /\ pc = "normalized"
        /\ call' = [op |-> "get_daily_trend_data", a |-> NaT, b |-> NaT,
                    scope |-> "", days |-> days]
        /\ result' = [columns |-> {"Date", "Opened", "Closed"},
                      rows |-> get_daily_trend_data(df, days, today)]
        /\ pc' = "queried"
        /\ UNCHANGED <<raw, df>>
        /\ unchangedUI

\* display_abandoned_tickets(df): df is left as the call leaves its argument
AbandonedTickets ==
    LET shown == display_abandoned_tickets(df, today)
    IN  /\ pc = "normalized"
        /\ call' = [op |-> "display_abandoned_tickets", a |-> NaT, b |-> NaT,
                    scope |-> ""]
        /\ result' = [more_than_7 |-> shown.more_than_7,
                      more_than_15 |-> shown.more_than_15,
                      more_than_30 |-> shown.more_than_30]
        /\ df' = shown.tickets_df
        /\ pc' = "queried"
        /\ UNCHANGED raw
        /\ unchangedUI

EmailSummary ==
    \E a \in QueryDates, b \in QueryDates :
        Query("generate_email_summary", a, b, "",
              generate_email_summary(df, a, b, today))

NextAggregate ==
    \/ NextEngine
    \/ CountByColumn
    \/ CurrentYearMetrics
    \/ DailyTrend
    \/ AbandonedTickets
    \/ EmailSummary

SpecAggregate == InitAggregate /\ [][NextAggregate]_vars

---------------------------------------------------------------------------
(***************************************************************************)
(* A run of main() (lines 595-1093).  Streamlit runs main() from the top    *)
(* on every interaction; a run reads the widgets, then processes the        *)
(* uploaded file section by section.                                        *)
(***************************************************************************)
Init ==
    /\ pc = "start"
    /\ uploaded_file = <<>>
    /\ show_charts = TRUE
    /\ today \in Todays
    /\ raw = EmptyDf
    /\ df = EmptyDf
    /\ date_a = NaT
    /\ date_b = NaT
    /\ scope_type = "open"
    /\ ran = {}
    /\ screen = BlankScreen
    /\ validation = <<>>
    /\ call = NoCall
    /\ result = EmptyDf

unchangedEngine == UNCHANGED <<call, result>>

\* lines 607-615: the file uploader and the checkbox
Upload ==
    /\ pc = "start"
    /\ uploaded_file' \in {<<>>} \cup {<<f>> : f \in Files}
    /\ show_charts' \in BOOLEAN
    /\ pc' = "read"
    /\ UNCHANGED <<today, raw, df, date_a, date_b, scope_type, ran, screen,
                   validation>>
    /\ unchangedEngine

\* an exception that leaves main() through no handler
OnException_Uncaught == "crashed"

\* lines 618 and 1082: an exception raised in the body of the try is caught
\* by 'except Exception', whatever its type
OnException == "except"

\* lines 617-620: no file, or pd.read_csv, which raises on a malformed file
ReadCsv ==
    /\ pc = "read"
    /\ IF uploaded_file = <<>>
       THEN /\ pc' = "expander"
            /\ UNCHANGED <<raw, df, ran>>
       ELSE /\ ran' = ran \cup {"read_csv"}
            /\ IF uploaded_file[1].malformed
               THEN /\ pc' = OnException
                    /\ UNCHANGED <<raw, df>>
               ELSE /\ pc' = "validate"
                    /\ df' = MkDf(uploaded_file[1].columns, uploaded_file[1].rows)
                    /\ raw' = df'
    /\ UNCHANGED <<uploaded_file, show_charts, today, date_a, date_b, scope_type,
                   screen, validation>>
    /\ unchangedEngine

\* the mutant of AfterValidation: the return of line 628 left out
AfterValidation_NoReturn(is_valid) == "prepare"

\* lines 625-628: an invalid table ends the run
AfterValidation(is_valid) == IF is_valid THEN "prepare" ELSE "returned"

\* lines 622-628
ValidateCsv ==
    /\ pc = "validate"
    /\ LET v == validate_csv(df)
       IN  /\ validation' = <<v>>
           /\ screen' = IF v.is_valid THEN screen
                        ELSE [screen EXCEPT !.error_missing = v.missing]
           /\ pc' = AfterValidation(v.is_valid)
    /\ ran' = ran \cup {"validate_csv"}
    /\ UNCHANGED <<uploaded_file, show_charts, today, raw, df, date_a, date_b,
                   scope_type>>
    /\ unchangedEngine

\* lines 630-633; a table without a column prepare_dataframe reads raises
\* KeyError
PrepareDataframe ==
    /\ pc = "prepare"
    /\ ran' = ran \cup {"prepare_dataframe"}
    /\ IF Range(REQUIRED_COLUMNS) \subseteq df.columns
       THEN /\ df' = prepare_dataframe(df)
            /\ screen' = [screen EXCEPT !.success = <<Count(df)>>]
            /\ pc' = "inputs"
       ELSE /\ pc' = OnException
            /\ UNCHANGED <<df, screen>>
    /\ UNCHANGED <<uploaded_file, show_charts, today, raw, date_a, date_b,
                   scope_type, validation>>
    /\ unchangedEngine

\* lines 639-642
all_dates(d) == DatesOf(d, "Created Date Parsed") \cup DatesOf(d, "ClosedDT")

\* the dates a date input bounded by min_date and max_date can be set to
DateChoices(min_date, max_date) ==
    {d \in QueryDates : min_date <= d /\ d <= max_date} \cup {max_date}

\* lines 635-685: the date inputs and the scope selector
SelectInputs ==
    /\ pc = "inputs"
    /\ IF all_dates(df) = {}
       THEN /\ screen' = [screen EXCEPT !.warning_no_dates = TRUE]
            /\ pc' = "returned"
            /\ UNCHANGED <<date_a, date_b, scope_type>>
       ELSE /\ date_a' \in DateChoices(MinDate(all_dates(df)), MaxDate(all_dates(df)))
            /\ date_b' \in DateChoices(MinDate(all_dates(df)), MaxDate(all_dates(df)))
            /\ scope_type' \in Scopes
            /\ pc' = "key_metrics"
            /\ UNCHANGED screen
    /\ UNCHANGED <<uploaded_file, show_charts, today, raw, df, ran, validation>>
    /\ unchangedEngine

\* lines 687-749
KeyMetricsSection ==
    /\ pc = "key_metrics"
    /\ screen' = [screen EXCEPT
            !.key_metrics = <<KeyMetrics(df)>>,
            !.year_metrics = <<get_current_year_metrics(df, today)>>]
    /\ ran' = ran \cup {"get_open_tickets", "get_current_year_metrics"}
    /\ pc' = "date_comparison"
    /\ UNCHANGED <<uploaded_file, show_charts, today, raw, df, date_a, date_b,
                   scope_type, validation>>
    /\ unchangedEngine

\* lines 777-801
PeriodComparison(d, a, b) ==
    [opened |-> Count(CreatedBetween(d, a, b)),
     closed |-> Count(ClosedBetween(d, a, b)),
     still_open |-> Count(get_open_tickets(CreatedBetween(d, a, b)))]

\* lines 807-830
RollingPeriods(d, now) ==
    [d1_opened |-> Count(get_tickets_opened_since(d, NowMinusDays(now, 1))),
     d1_closed |-> Count(get_tickets_closed_since(d, NowMinusDays(now, 1))),
     d7_opened |-> Count(get_tickets_opened_since(d, NowMinusDays(now, 7))),
     d7_closed |-> Count(get_tickets_closed_since(d, NowMinusDays(now, 7))),
     d30_opened |-> Count(get_tickets_opened_since(d, NowMinusDays(now, 30))),
     d30_closed |-> Count(get_tickets_closed_since(d, NowMinusDays(now, 30)))]

\* lines 752-830
DateComparisonSection ==
    /\ pc = "date_comparison"
    /\ \E raises \in ComparisonRaises(df) :
        IF raises
        THEN /\ pc' = OnException
             /\ UNCHANGED <<screen, ran>>
        ELSE /\ screen' = [screen EXCEPT
                    !.period = <<PeriodComparison(df, date_a, date_b)>>,
                    !.rolling = <<RollingPeriods(df, [date |-> today, hour |-> 9])>>]
             /\ ran' = ran \cup {"get_tickets_opened_since", "get_tickets_closed_since"}
             /\ pc' = "charts"
    /\ UNCHANGED <<uploaded_file, show_charts, today, raw, df, date_a, date_b,
                   scope_type, validation>>
    /\ unchangedEngine

\* lines 832-891
ChartsSection ==
    /\ pc = "charts"
    /\ IF show_charts
       THEN /\ screen' = [screen EXCEPT
                    !.trend = <<get_daily_trend_data(df, TrendDays, today)>>]
            /\ ran' = ran \cup {"get_tickets_in_period", "get_daily_trend_data"}
       ELSE UNCHANGED <<screen, ran>>
    /\ pc' = "breakdown"
    /\ UNCHANGED <<uploaded_file, show_charts, today, raw, df, date_a, date_b,
                   scope_type, validation>>
    /\ unchangedEngine

\* line 427 ('Total groups'), or no group (line 424): every table
\* count_by_column can return has one row for each value
TotalGroups(tickets_df, column_name) ==
    IF Len(tickets_df.rows) = 0 THEN 0
    ELSE Cardinality(GroupValues(tickets_df, column_name))

\* lines 940-942
abandoned_scope(breakdown_tickets) ==
    Filter(breakdown_tickets, [k \in DOMAIN breakdown_tickets.rows |->
        At(breakdown_tickets, k, "Status Clean")
            \notin {s_closed, s_resolved, <<"c", "a", "n", "c", "e", "l", "e", "d">>}])

\* lines 549-555: the three metrics of the 'Abandoned Tickets' tab
AbandonedMetrics(tickets_df, now) ==
    LET shown == display_abandoned_tickets(tickets_df, now)
    IN  [more_than_7 |-> Count(shown.more_than_7),
         more_than_15 |-> Count(shown.more_than_15),
         more_than_30 |-> Count(shown.more_than_30)]

\* lines 893-943
BreakdownSection ==
    /\ pc = "breakdown"
    /\ LET breakdown_tickets == get_tickets_in_period(df, date_a, date_b, scope_type)
       IN  screen' = [screen EXCEPT
                !.breakdown_total = <<Count(breakdown_tickets)>>,
                !.breakdown_groups =
                    <<[c \in CountColumns \ {"DevOpsRef"} |->
                        TotalGroups(breakdown_tickets, c)]>>,
                !.abandoned =
                    <<AbandonedMetrics(abandoned_scope(breakdown_tickets), today)>>]
    /\ ran' = ran \cup {"get_tickets_in_period", "count_by_column",
                        "display_abandoned_tickets"}
    /\ pc' = "summary"
    /\ UNCHANGED <<uploaded_file, show_charts, today, raw, df, date_a, date_b,
                   scope_type, validation>>
    /\ unchangedEngine

\* lines 945-1080
EmailSummarySection ==
    /\ pc = "summary"
    /\ screen' = [screen EXCEPT !.summary =
            <<generate_email_summary(df, date_a, date_b, today)>>]
    /\ ran' = ran \cup {"generate_email_summary"}
    /\ pc' = "else"
    /\ UNCHANGED <<uploaded_file, show_charts, today, raw, df, date_a, date_b,
                   scope_type, validation>>
    /\ unchangedEngine

\* lines 1082-1084: the handler of the try of line 618
ExceptHandler ==
    /\ pc = "except"
    /\ screen' = [screen EXCEPT !.exception = TRUE]
    /\ pc' = "expander"
    /\ UNCHANGED <<uploaded_file, show_charts, today, raw, df, date_a, date_b,
                   scope_type, ran, validation>>
    /\ unchangedEngine

\* lines 1086-1087: the else of the try of line 618, run when its body ends
\* without raising or returning
TryElse ==
    /\ pc = "else"
    /\ screen' = [screen EXCEPT !.prompt = TRUE]
    /\ pc' = "expander"
    /\ UNCHANGED <<uploaded_file, show_charts, today, raw, df, date_a, date_b,
                   scope_type, ran, validation>>
    /\ unchangedEngine

\* lines 1089-1093
RequiredColumnsExpander ==
    /\ pc = "expander"
    /\ screen' = [screen EXCEPT !.expander = TRUE]
    /\ pc' = "done"
    /\ UNCHANGED <<uploaded_file, show_charts, today, raw, df, date_a, date_b,
                   scope_type, ran, validation>>
    /\ unchangedEngine

\* the next interaction runs main() again, from scratch
Rerun ==
    /\ pc \in {"done", "returned"}
    /\ pc' = "start"
    /\ uploaded_file' = <<>>
    /\ show_charts' = TRUE
    /\ raw' = EmptyDf
    /\ df' = EmptyDf
    /\ date_a' = NaT
    /\ date_b' = NaT
    /\ scope_type' = "open"
    /\ ran' = {}
    /\ screen' = BlankScreen
    /\ validation' = <<>>
    /\ UNCHANGED today
    /\ unchangedEngine

Next ==
    \/ Upload
    \/ ReadCsv
    \/ ValidateCsv
    \/ PrepareDataframe
    \/ SelectInputs
    \/ KeyMetricsSection
    \/ DateComparisonSection
    \/ ChartsSection
    \/ BreakdownSection
    \/ EmailSummarySection
    \/ ExceptHandler
    \/ TryElse
    \/ RequiredColumnsExpander
    \/ Rerun

Spec == Init /\ [][Next]_vars

---------------------------------------------------------------------------
(***************************************************************************)
(* Properties of the normalized table and of the closed-date queries,       *)
(* under SpecEngine.                                                        *)
(***************************************************************************)
Normalized == pc \in {"normalized", "queried", "raised"}

Rows == 1..Len(df.rows)

\* the trimmed text of a raw cell, 'nan' for the missing value
Trimmed(cell) == Strip(AsStr(cell))

\* C1: after normalization every ticket whose 'Is Closed' is false has no
\* ClosedDT, whatever its status, Completed Time and Last Updated Time.
C1_OpenHasNoClosedAt ==
    Normalized =>
        \A i \in Rows : ~df.rows[i]["Is Closed"] => df.rows[i]["ClosedDT"] = NaT

\* C2: after normalization every closed ticket has ClosedDT equal to its
\* parsed Completed Time when present, else to its parsed Last Updated Time,
\* and absent when neither is present.
C2_ClosedAtRule ==
    Normalized =>
        \A i \in Rows :
            LET r == df.rows[i]
            IN  r["Is Closed"] =>
                    /\ r["Completed Time Parsed"] # NaT
                        => r["ClosedDT"] = r["Completed Time Parsed"]
                    /\ r["Completed Time Parsed"] = NaT
                        => r["ClosedDT"] = r["Last Updated Time Parsed"]
                    /\ (r["Completed Time Parsed"] = NaT
                            /\ r["Last Updated Time Parsed"] = NaT)
                        => r["ClosedDT"] = NaT

\* a closed ticket without completed date took its last-updated date, and
\* another closed ticket kept its completed date over its last-updated date
C2_Witness ==
    /\ Normalized
    /\ \E i \in Rows :
        /\ df.rows[i]["Is Closed"]
        /\ df.rows[i]["Completed Time Parsed"] = NaT
        /\ df.rows[i]["ClosedDT"] = 20240503
    /\ \E i \in Rows :
        /\ df.rows[i]["Is Closed"]
        /\ df.rows[i]["Last Updated Time Parsed"] = 20240503
        /\ df.rows[i]["ClosedDT"] = 20240210

\* C3: after normalization 'Is Closed' is true exactly for the tickets whose
\* raw Status.Name, trimmed and lower-cased, is 'closed' or 'resolved'; a
\* missing status is not closed.
C3_IsClosedIffClosedStatus ==
    Normalized =>
        \A i \in Rows :
            df.rows[i]["Is Closed"] <=>
                /\ ~IsNa(raw.rows[i]["Status.Name"])
                /\ Lower(Trimmed(raw.rows[i]["Status.Name"])) \in {s_closed, s_resolved}

\* ' CLOSED ' is closed, and a missing status is not
C3_Witness ==
    /\ Normalized
    /\ \E i \in Rows :
        /\ raw.rows[i]["Status.Name"] = Text(s_CLOSED_sp)
        /\ df.rows[i]["Is Closed"]
    /\ \E i \in Rows :
        /\ IsNa(raw.rows[i]["Status.Name"])
        /\ ~df.rows[i]["Is Closed"]

\* C6: after normalization each of the seven breakdown fields of every ticket
\* is a non-empty text: 'Unassigned' when the raw value is missing or, once
\* trimmed, empty or 'nan', and the trimmed raw value otherwise.
C6_BreakdownNeverBlank ==
    Normalized =>
        \A i \in Rows : \A c \in Range(BreakdownColumns) :
            LET cell == raw.rows[i][c]
                blank == IsNa(cell) \/ Trimmed(cell) = <<>> \/ Trimmed(cell) = s_nan
            IN  /\ ~IsNa(df.rows[i][c])
                /\ df.rows[i][c].s # <<>>
                /\ blank => df.rows[i][c].s = s_Unassigned
                /\ ~blank => df.rows[i][c].s = Trimmed(cell)

\* one table holds a blank, a missing and a ' nan' value that became
\* 'Unassigned' and a padded value that was kept trimmed
C6_Witness ==
    /\ Normalized
    /\ \E i \in Rows : \E c \in Range(BreakdownColumns) :
        raw.rows[i][c] = Text(<<" ", " ">>) /\ df.rows[i][c].s = s_Unassigned
    /\ \E i \in Rows : \E c \in Range(BreakdownColumns) :
        IsNa(raw.rows[i][c]) /\ df.rows[i][c].s = s_Unassigned
    /\ \E i \in Rows : \E c \in Range(BreakdownColumns) :
        raw.rows[i][c] = Text(<<" ", "n", "a", "n">>) /\ df.rows[i][c].s = s_Unassigned
    /\ \E i \in Rows : \E c \in Range(BreakdownColumns) :
        raw.rows[i][c] = Text(<<" ", "N", "e", "t", " ">>)
            /\ df.rows[i][c].s = <<"N", "e", "t">>

\* the ticket of the example: created '01/03/2024', 'Resolved', no Completed
\* Time, last updated '05/03/2024'
IsExampleTicket(r) ==
    /\ r["Created Date"] = Text(s_Jan3)
    /\ r["Status.Name"] = Text(s_Resolved)
    /\ (IsNa(r["Completed Time"]) \/ r["Completed Time"] = Text(<<>>))
    /\ r["Last Updated Time"] = Text(s_May3)

\* C7 as stated: the example ticket is normalized to Is Closed and
\* ClosedDT = 2024-03-05 (5 March 2024).
C7_ExampleClosedAtMarch5 ==
    Normalized =>
        \A i \in Rows :
            IsExampleTicket(raw.rows[i]) =>
                df.rows[i]["Is Closed"] /\ df.rows[i]["ClosedDT"] = 20240305

\* C7 amended: the example ticket is normalized to Is Closed and
\* ClosedDT = 2024-05-03 (3 May 2024), '05/03/2024' being read month first.
C7_ExampleClosedAtMay3 ==
    Normalized =>
        \A i \in Rows :
            IsExampleTicket(raw.rows[i]) =>
                df.rows[i]["Is Closed"] /\ df.rows[i]["ClosedDT"] = 20240503

\* the example ticket has been normalized, with its Completed Time missing
\* in one row and the empty text in another
C7_Witness ==
    /\ Normalized
    /\ \E i \in Rows :
        IsExampleTicket(raw.rows[i]) /\ IsNa(raw.rows[i]["Completed Time"])
    /\ \E i \in Rows :
        IsExampleTicket(raw.rows[i]) /\ ~IsNa(raw.rows[i]["Completed Time"])

\* a closed ticket with neither a completed nor a last-updated date
ClosedUndated(r) ==
    /\ r["Is Closed"]
    /\ r["Completed Time Parsed"] = NaT
    /\ r["Last Updated Time Parsed"] = NaT

ClosedDateQuery ==
    \/ call.op \in {"get_tickets_closed_on_date", "get_tickets_closed_since"}
    \/ call.op = "get_tickets_in_period" /\ call.scope = "closed_in_period"

\* C10: a closed ticket with neither a parseable Completed Time nor a
\* parseable Last Updated Time has no ClosedDT, is in the result of no
\* closed-on, closed-since or closed-in-period query, whatever the date or
\* window, and is among the closed tickets main() counts as the total.
C10_UndatedClosedTicket ==
    Normalized =>
        \A i \in Rows :
            ClosedUndated(df.rows[i]) =>
                /\ df.rows[i]["ClosedDT"] = NaT
                /\ (pc = "queried" /\ ClosedDateQuery)
                    => df.index[i] \notin Range(result.index)
                /\ (pc = "queried" /\ call.op = "closed_tickets")
                    => df.index[i] \in Range(result.index)

\* a closed-in-period query returned a dated closed ticket and left out the
\* undated one of the same table
C10_Witness ==
    /\ pc = "queried"
    /\ call.op = "get_tickets_in_period"
    /\ call.scope = "closed_in_period"
    /\ \E i \in Rows : ClosedUndated(df.rows[i])
    /\ Len(result.rows) = 1

---------------------------------------------------------------------------
(***************************************************************************)
(* Properties of a run of main(), under Spec.                               *)
(***************************************************************************)
\* the required columns the table read from the file lacks
Absent == Range(REQUIRED_COLUMNS) \ raw.columns

\* C4: validate_csv returns is_valid = true exactly when the table has every
\* required column; otherwise is_valid is false and missing lists exactly the
\* absent required columns, each once, in the order of REQUIRED_COLUMNS,
\* whatever the extra columns and the rows.
C4_ValidateCsvContract ==
    validation # <<>> =>
        LET v == validation[1]
        IN  /\ v.is_valid <=> Absent = {}
            /\ Range(v.missing) = Absent
            /\ Len(v.missing) = Cardinality(Absent)
            /\ \A i \in DOMAIN v.missing : \A j \in DOMAIN v.missing :
                    i < j => IndexOf(REQUIRED_COLUMNS, v.missing[i])
                                < IndexOf(REQUIRED_COLUMNS, v.missing[j])

\* a table with the extra column 'Site' and without 'DevOpsRef' and
\* 'Subject' was reported as lacking Subject, then DevOpsRef
C4_Witness ==
    /\ validation # <<>>
    /\ "Site" \in raw.columns
    /\ ~validation[1].is_valid
    /\ validation[1].missing = <<"Subject", "DevOpsRef">>

\* the components that run before the table is known to conform
BeforeConformance == {"read_csv", "validate_csv"}

\* C5: in a run where validation reports a missing required column, the list
\* is displayed and the run ends there: prepare_dataframe, the queries, the
\* aggregations and the summary are not executed in that run.
C5_InvalidTableHaltsRun ==
    (validation # <<>> /\ validation[1].missing # <<>>) =>
        /\ pc = "returned"
        /\ screen.error_missing = validation[1].missing
        /\ ran \subseteq BeforeConformance
        /\ df = raw
        /\ screen.success = <<>>
        /\ screen.key_metrics = <<>>
        /\ screen.summary = <<>>

\* a run has ended on a table that lacks two required columns
C5_Witness ==
    /\ pc = "returned"
    /\ Len(screen.error_missing) = 2
    /\ "validate_csv" \in ran

\* the positions of the closed tickets whose ClosedDT lies in [a, b]
ClosedInWindow(a, b) ==
    {i \in Rows : /\ df.rows[i]["Is Closed"]
                  /\ df.rows[i]["ClosedDT"] # NaT
                  /\ a <= df.rows[i]["ClosedDT"]
                  /\ df.rows[i]["ClosedDT"] <= b}

\* the positions of the closed tickets created in [a, b]
CreatedInWindowAndClosed(a, b) ==
    {i \in Rows : /\ df.rows[i]["Is Closed"]
                  /\ df.rows[i]["Created Date Parsed"] # NaT
                  /\ a <= df.rows[i]["Created Date Parsed"]
                  /\ df.rows[i]["Created Date Parsed"] <= b}

\* C8: the Closed/Resolved count of the summary's 'Selected Period' section
\* is the number of closed tickets of the whole table whose ClosedDT lies in
\* [Date A, Date B].
C8_PeriodClosedByClosedDate ==
    screen.summary # <<>> =>
        screen.summary[1].period_df.closed
            = Cardinality(ClosedInWindow(date_a, date_b))

\* a summary whose period count differs from the number of closed tickets
\* created in the period
C8_Witness ==
    /\ screen.summary # <<>>
    /\ screen.summary[1].period_df.closed = 1
    /\ Cardinality(CreatedInWindowAndClosed(date_a, date_b)) = 0

\* C9: the Closed/Resolved count of the summary's 'Current Month' section is
\* the number of closed tickets whose ClosedDT lies between the first day of
\* the current month and today.
C9_MonthClosedByClosedDate ==
    screen.summary # <<>> =>
        screen.summary[1].month_df.closed
            = Cardinality(ClosedInWindow(MonthStart(today), today))

---------------------------------------------------------------------------
(***************************************************************************)
(* Properties of get_tickets_in_period, under SpecEngine.                   *)
(***************************************************************************)
InPeriodCall == pc = "queried" /\ call.op = "get_tickets_in_period"

\* the labels of the rows of a dataframe
Labels(d) == Range(d.index)

\* the result is a view of df: rows of df, unchanged, in the order of df
IsViewOfDf ==
    /\ Len(result.index) = Len(result.rows)
    /\ result.columns = df.columns
    /\ \A k \in DOMAIN result.rows :
        \E i \in Rows : df.index[i] = result.index[k] /\ df.rows[i] = result.rows[k]
    /\ \A k \in DOMAIN result.index : \A l \in DOMAIN result.index :
        k < l => result.index[k] < result.index[l]

\* C11: get_tickets_in_period called with a scope that is none of 'open',
\* 'all', 'created_in_period' and 'closed_in_period' returns the whole table,
\* as scope 'all' does, whatever the two dates; scope 'open' returns exactly
\* the rows whose 'Is Closed' is false.
C11_UnknownScopeIsAll ==
    InPeriodCall =>
        /\ call.scope \notin Scopes => result = df
        /\ call.scope = "all" => result = df
        /\ call.scope = "open" =>
            /\ IsViewOfDf
            /\ Labels(result) = {df.index[i] : i \in {j \in Rows : ~df.rows[j]["Is Closed"]}}

\* scope 'closed', with Date A after Date B, returned both the closed and the
\* open ticket of a table
C11_Witness ==
    /\ InPeriodCall
    /\ call.scope = "closed"
    /\ call.a > call.b
    /\ Len(result.rows) = 2
    /\ \E i \in Rows : df.rows[i]["Is Closed"]
    /\ \E i \in Rows : ~df.rows[i]["Is Closed"]

\* the positions of the rows created in [a, b]
CreatedInWindow(a, b) ==
    {i \in Rows : /\ df.rows[i]["Created Date Parsed"] # NaT
                  /\ a <= df.rows[i]["Created Date Parsed"]
                  /\ df.rows[i]["Created Date Parsed"] <= b}

\* C12: scope 'created_in_period' returns exactly the rows whose Created Date
\* Parsed is present and lies in [Date A, Date B], both bounds included: a
\* subset of the table, without the rows that have no created date, and empty
\* when Date A is after Date B.
C12_CreatedInPeriodExact ==
    (InPeriodCall /\ call.scope = "created_in_period") =>
        /\ IsViewOfDf
        /\ Labels(result) = {df.index[i] : i \in CreatedInWindow(call.a, call.b)}
        /\ Labels(result) \subseteq Labels(df)
        /\ \A k \in DOMAIN result.rows : result.rows[k]["Created Date Parsed"] # NaT
        /\ call.a > call.b => result.rows = <<>>

\* a ticket created on Date B was returned and the ticket of the same table
\* without created date was left out
C12_Witness ==
    /\ InPeriodCall
    /\ call.scope = "created_in_period"
    /\ call.a < call.b
    /\ \E k \in DOMAIN result.rows : result.rows[k]["Created Date Parsed"] = call.b
    /\ \E i \in Rows :
        /\ df.rows[i]["Created Date Parsed"] = NaT
        /\ df.index[i] \notin Labels(result)

---------------------------------------------------------------------------
(***************************************************************************)
(* Properties of the aggregations, under SpecAggregate.                     *)
(***************************************************************************)
CountCall == pc = "queried" /\ call.op = "count_by_column"

\* the positions in df of the rows count_by_column was given
CountInput ==
    IF call.scope = "open" THEN {i \in Rows : ~df.rows[i]["Is Closed"]} ELSE Rows

RECURSIVE SumOfCounts(_)
SumOfCounts(rows) ==
    IF rows = <<>> THEN 0 ELSE rows[1]["Count"] + SumOfCounts(Tail(rows))

\* C13: the counts count_by_column returns sum to the number of rows it was
\* given; the value of every such row, 'Unassigned' included, is the value of
\* exactly one group, whose count is the number of rows carrying it; no row
\* gives no group.
C13_CountsCoverInput ==
    CountCall =>
        /\ SumOfCounts(result.rows) = Cardinality(CountInput)
        /\ \A i \in CountInput :
            Cardinality({k \in DOMAIN result.rows :
                result.rows[k][call.column] = df.rows[i][call.column]}) = 1
        /\ \A k \in DOMAIN result.rows :
            result.rows[k]["Count"] =
                Cardinality({i \in CountInput :
                    df.rows[i][call.column] = result.rows[k][call.column]})
        /\ CountInput = {} => result.rows = <<>>

\* the position in df of the first given row that carries the value v
FirstSeen(v) ==
    CHOOSE i \in CountInput :
        /\ df.rows[i][call.column] = v
        /\ \A j \in CountInput : df.rows[j][call.column] = v => i <= j

TrendCall == pc = "queried" /\ call.op = "get_daily_trend_data"

\* C15: get_daily_trend_data asked for N >= 1 days returns N entries, one for
\* each day from today - (N - 1) to today in ascending order; Opened is the
\* number of tickets created on the day and Closed the number of closed
\* tickets whose ClosedDT is the day, 0 when there is none.
C15_TrendWindow ==
    TrendCall =>
        LET t == result.rows
        IN  /\ Len(t) = call.days
            /\ t[Len(t)]["Date"] = today
            /\ ToOrdinal(today) - ToOrdinal(t[1]["Date"]) = call.days - 1
            /\ \A k \in 1..(Len(t) - 1) :
                ToOrdinal(t[k + 1]["Date"]) = ToOrdinal(t[k]["Date"]) + 1
            /\ \A k \in DOMAIN t :
                /\ t[k]["Opened"] =
                    Cardinality({i \in Rows :
                        df.rows[i]["Created Date Parsed"] = t[k]["Date"]})
                /\ t[k]["Closed"] =
                    Cardinality({i \in Rows :
                        /\ df.rows[i]["Is Closed"]
                        /\ df.rows[i]["ClosedDT"] = t[k]["Date"]})

\* a 30-day trend with a day on which a ticket was opened, a day on which one
\* was closed, and a day without either
C15_Witness ==
    /\ TrendCall
    /\ call.days = 30
    /\ \E k \in DOMAIN result.rows : result.rows[k]["Opened"] = 1
    /\ \E k \in DOMAIN result.rows : result.rows[k]["Closed"] = 1
    /\ \E k \in DOMAIN result.rows :
        result.rows[k]["Opened"] = 0 /\ result.rows[k]["Closed"] = 0

AbandonedCall == pc = "queried" /\ call.op = "display_abandoned_tickets"

\* C16: the bucket of more than 30 days lies within the bucket of more than
\* 15 days, which lies within the bucket of more than 7 days, so that their
\* counts do not increase with the threshold; a ticket without a parsed Last
\* Updated Time is in no bucket.
C16_BucketsNested ==
    AbandonedCall =>
        /\ Labels(result.more_than_30) \subseteq Labels(result.more_than_15)
        /\ Labels(result.more_than_15) \subseteq Labels(result.more_than_7)
        /\ Len(result.more_than_30.rows) <= Len(result.more_than_15.rows)
        /\ Len(result.more_than_15.rows) <= Len(result.more_than_7.rows)
        /\ \A i \in DOMAIN raw.rows :
            ParseDate(Trimmed(raw.rows[i]["Last Updated Time"])) = NaT
                => raw.index[i] \notin Labels(result.more_than_7)

\* of two tickets, the one updated 17 days ago is in the buckets of 7 and 15
\* days and not in that of 30 days, and the one never updated is in none
C16_Witness ==
    /\ AbandonedCall
    /\ Len(raw.rows) = 2
    /\ \E i \in DOMAIN raw.rows : IsNa(raw.rows[i]["Last Updated Time"])
    /\ Len(result.more_than_7.rows) = 1
    /\ Len(result.more_than_15.rows) = 1
    /\ Len(result.more_than_30.rows) = 0

---------------------------------------------------------------------------
(***************************************************************************)
(* Properties of prepare_dataframe, under SpecEngine.                       *)
(***************************************************************************)
PrepareAgainCall == pc = "queried" /\ call.op = "prepare_dataframe"

\* C17: prepare_dataframe applied to the table it returned gives every ticket
\* the same Status Clean, parsed Created Date, Completed Time and Last Updated
\* Time, Is Closed, ClosedDT and seven breakdown values as the first time.
C17_PrepareIdempotent ==
    PrepareAgainCall =>
        /\ Len(result.rows) = Len(df.rows)
        /\ result.index = df.index
        /\ \A i \in Rows : \A c \in DerivedColumns \cup Range(BreakdownColumns) :
            result.rows[i][c] = df.rows[i][c]

\* the table prepared twice holds a padded closed status, a closed ticket
\* dated by its last update, and a breakdown value that was ' nan'
C17_Witness ==
    /\ PrepareAgainCall
    /\ \E i \in Rows :
        raw.rows[i]["Status.Name"] = Text(s_CLOSED_sp) /\ result.rows[i]["Is Closed"]
    /\ \E i \in Rows :
        /\ result.rows[i]["Completed Time Parsed"] = NaT
        /\ result.rows[i]["ClosedDT"] = 20240503
    /\ \E i \in Rows : \E c \in Range(BreakdownColumns) :
        /\ raw.rows[i][c] = Text(<<" ", "n", "a", "n">>)
        /\ result.rows[i][c] = Text(s_Unassigned)

\* C20: prepare_dataframe leaves Request ID and Subject as they were read but
\* for the surrounding whitespace: a text comes out trimmed, and a missing
\* value stays missing instead of becoming a text such as 'nan'.
C20_SubjectPassThrough ==
    Normalized =>
        \A i \in Rows : \A c \in {"Request ID", "Subject"} :
            IF IsNa(raw.rows[i][c])
            THEN IsNa(df.rows[i][c])
            ELSE df.rows[i][c] = Text(Strip(raw.rows[i][c].s))

---------------------------------------------------------------------------
(***************************************************************************)
(* The normalized table under the calls of the aggregation session          *)
(* (SpecAggregate).                                                         *)
(***************************************************************************)
\* C18: no query, aggregation, display or summary call changes the normalized
\* table: every step taken once the table is normalized leaves its columns,
\* labels, rows and values as they were (no 'Days Since Update' column is
\* added to it).
C18_NormalizedTableUnchanged == [][Normalized => df' = df]_vars

\* display_abandoned_tickets has put a ticket in a bucket, with its days
\* since update, and the normalized table has no such column
C18_Witness ==
    /\ AbandonedCall
    /\ Len(result.more_than_7.rows) >= 1
    /\ "Days Since Update" \in result.more_than_7.columns
    /\ "Days Since Update" \notin df.columns
    /\ df = prepare_dataframe(raw)

---------------------------------------------------------------------------
(***************************************************************************)
(* Failures in a run of main(), under Spec.                                 *)
(***************************************************************************)
\* the positions of a run of main(); an exception that no handler catches
\* would leave them
RunPositions ==
    {"start", "read", "validate", "prepare", "inputs", "key_metrics",
     "date_comparison", "charts", "breakdown", "summary", "else", "except",
     "expander", "done", "returned"}

\* a step in which an operation on the uploaded file raises: pd.read_csv on
\* a malformed file, or a section that stops before displaying its metrics
FailedStep ==
    \/ pc = "read" /\ uploaded_file # <<>> /\ uploaded_file[1].malformed
    \/ pc = "prepare" /\ screen'.success = <<>>
    \/ pc = "date_comparison" /\ screen'.period = <<>>

\* nothing is left of the previous run
FreshRun ==
    /\ uploaded_file = <<>>
    /\ raw = EmptyDf
    /\ df = EmptyDf
    /\ date_a = NaT
    /\ date_b = NaT
    /\ ran = {}
    /\ screen = BlankScreen
    /\ validation = <<>>

\* C19: a failure raised while the uploaded file is processed is caught by
\* the handler of main(), which displays the error; the run then goes on to
\* its end, no exception leaving main(), and the next run starts from
\* scratch, with nothing left of the failed one.
C19_FailuresCaught ==
    [][ /\ FailedStep => pc' = "except"
        /\ pc = "except" => (screen'.exception /\ pc' = "expander")
        /\ (pc = "expander" /\ screen.exception) => pc' = "done"
        /\ pc = "done" => (pc' = "start" /\ FreshRun')
        /\ pc' \in RunPositions ]_vars

\* a run has ended after a failure that came once the key metrics were
\* displayed: the error is on the screen and the summary is not
C19_Witness ==
    /\ pc = "done"
    /\ screen.exception
    /\ screen.key_metrics # <<>>
    /\ screen.summary = <<>>
    /\ ~screen.prompt

---------------------------------------------------------------------------
(***************************************************************************)
(* Properties of the closed-date queries, under SpecEngine.                 *)
(***************************************************************************)
ClosedDateCall == pc = "queried" /\ ClosedDateQuery

\* the condition the call puts on a closed date: equal to the date, on or
\* after the date of the cutoff, or within [Date A, Date B]
Requested(x) ==
    CASE call.op = "get_tickets_closed_on_date" -> x = call.a
      [] call.op = "get_tickets_closed_since" -> x >= call.a
      [] OTHER -> call.a <= x /\ x <= call.b

\* the positions of the closed rows whose ClosedDT is present and as requested
ClosedAsRequested ==
    {i \in Rows : /\ df.rows[i]["Is Closed"]
                  /\ df.rows[i]["ClosedDT"] # NaT
                  /\ Requested(df.rows[i]["ClosedDT"])}

\* C21: every row returned by get_tickets_closed_on_date,
\* get_tickets_closed_since and the scope 'closed_in_period' is a row of the
\* table with 'Is Closed' true and a present ClosedDT that is as requested
\* (equal to the date, on or after the date of the cutoff, within
\* [Date A, Date B] with both bounds), and every such row of the table is
\* returned; a ticket that is not closed is never returned, whatever its
\* completed date.  A call that raises returns nothing, and raises only on a
\* table that has no such row.
C21_ClosedQueriesExact ==
    /\ ClosedDateCall =>
        /\ IsViewOfDf
        /\ Labels(result) = {df.index[i] : i \in ClosedAsRequested}
        /\ \A k \in DOMAIN result.rows :
            /\ result.rows[k]["Is Closed"]
            /\ result.rows[k]["ClosedDT"] # NaT
            /\ Requested(result.rows[k]["ClosedDT"])
        /\ \A i \in Rows :
            ~df.rows[i]["Is Closed"] => df.index[i] \notin Labels(result)
    /\ (pc = "raised" /\ ClosedDateQuery) => ClosedAsRequested = {}

\* a closed-in-period query over a window of several days returned the
\* ticket closed on Date B and left out the open ticket of the same table
\* whose completed date lies in the window
C21_Witness ==
    /\ ClosedDateCall
    /\ call.op = "get_tickets_in_period"
    /\ call.a < call.b
    /\ \E k \in DOMAIN result.rows : result.rows[k]["ClosedDT"] = call.b
    /\ \E i \in Rows :
        /\ ~df.rows[i]["Is Closed"]
        /\ df.rows[i]["Completed Time Parsed"] # NaT
        /\ call.a <= df.rows[i]["Completed Time Parsed"]
        /\ df.rows[i]["Completed Time Parsed"] <= call.b
        /\ df.index[i] \notin Labels(result)

---------------------------------------------------------------------------
(***************************************************************************)
(* The upload prompt in a run of main(), under Spec.                        *)
(***************************************************************************)
\* the run of main() has ended, by its last statement or by a return
RunEnded == pc \in {"done", "returned"}

\* C22: in every run of main() the prompt 'Please upload a CSV file to begin
\* analysis' is displayed if and only if no file was uploaded in that run;
\* it is not displayed in a run whose uploaded file was validated, normalized
\* and reported on to the end.
C22_PromptIffNoFile ==
    RunEnded =>
        /\ screen.prompt <=> uploaded_file = <<>>
        /\ (uploaded_file # <<>> /\ screen.summary # <<>>) => ~screen.prompt

=============================================================================
